---- MODULE Spec2Model ----
(***************************************************************************)
(* MessageLocator (src/src/message_locator.rs): locale loading with        *)
(* fallbacks, fragment merging, identifier resolution and interpolation.   *)
(*                                                                         *)
(* Text (String, &str) is a sequence of one-character strings, so that     *)
(* split, join and the interpolation regex are computed character by       *)
(* character.  A serde_json::Value is a function from a prefix-closed set  *)
(* of key paths to node labels: the root is the path <<>>, an object node  *)
(* is labelled Obj and its members are the paths one key longer; a string  *)
(* is labelled Str(text); any other JSON value (number, bool, null, array) *)
(* is labelled Other.                                                      *)
(***************************************************************************)
EXTENDS Integers, Sequences, FiniteSets, TLC

\* ------------------------------------------------------------------ bounds
\* Handles that can exist at once (the one made by new plus its clones).
MaxHandles == 2
\* load calls begun in one behaviour.
MaxLoads == 2
\* get calls made in one behaviour.
MaxGets == 1
\* Depth of nested calls after which the recursion of enumerate_fallbacks and
\* get_formatted_with_locale exhausts the thread's stack.  A chain of distinct
\* locales is never longer than the number of locales, so a deeper recursion
\* is inside a cycle and never returns.
StackLimit == 6
\* Fallback entries (edges) a configured fallback map holds in all.
MaxEdges == 3
\* Characters of a message template passed to apply_message.
MaxLen == 4
\* Format arguments of one get_formatted call.
MaxOptions == 2

\* ------------------------------------------------------------------ locales
Locales == {"en", "pt", "fr", "de"}
None == "None"
Handles == 1..MaxHandles

\* The locale code a supported locale was declared with (the value
\* MessageLocator::new stores in _locale_path_components).
Code(l) ==
    CASE l = "en" -> <<"e", "n">>
      [] l = "pt" -> <<"p", "t">>
      [] l = "fr" -> <<"f", "r">>
      [] l = "de" -> <<"d", "e">>

\* ------------------------------------------------------------------ text
Max(S) == CHOOSE x \in S : \A y \in S : y <= x

Range(list) == {list[i] : i \in DOMAIN list}

\* str::split(sep): the pieces between the occurrences of sep; a text with no
\* sep (the empty text too) is one piece.
RECURSIVE Split(_, _)
Split(s, sep) ==
    IF \E i \in 1..Len(s) : s[i] = sep
    THEN LET i == CHOOSE k \in 1..Len(s) :
                      s[k] = sep /\ \A j \in 1..(k - 1) : s[j] # sep
         IN  <<SubSeq(s, 1, i - 1)>> \o Split(SubSeq(s, i + 1, Len(s)), sep)
    ELSE <<s>>

\* [String]::join(sep)
RECURSIVE Join(_, _)
Join(segs, sep) ==
    IF Len(segs) = 0 THEN <<>>
    ELSE IF Len(segs) = 1 THEN segs[1]
    ELSE segs[1] \o <<sep>> \o Join(Tail(segs), sep)

\* ------------------------------------------------------------------ JSON
Obj == [t |-> "obj", s |-> <<>>]
Str(x) == [t |-> "str", s |-> x]
Other == [t |-> "other", s |-> <<>>]

\* serde_json::Value::Object(serde_json::Map::new())
EmptyObject == [q \in {<<>>} |-> Obj]

IsPrefix(p, q) == Len(p) <= Len(q) /\ SubSeq(q, 1, Len(p)) = p

\* Value::get(key) at the node p of doc: the member key of an object node,
\* nothing for a missing member and for a node that is not an object.
ValueGet(doc, p, key) ==
    IF doc[p].t = "obj" /\ Append(p, key) \in DOMAIN doc
    THEN [some |-> TRUE, at |-> Append(p, key)]
    ELSE [some |-> FALSE, at |-> <<>>]

\* Map::insert(key, v) on the object node p of doc: the member key, with all
\* that was below it, is replaced by the value v.
MapInsert(doc, p, key, v) ==
    LET at   == Append(p, key)
        keep == {q \in DOMAIN doc : ~IsPrefix(at, q)}
        new  == {at \o r : r \in DOMAIN v}
    IN  [q \in keep \cup new |->
            IF q \in new THEN v[SubSeq(q, Len(at) + 1, Len(q))] ELSE doc[q]]

\* Mutant of apply_deep_from: an intermediate name always gets a new empty
\* object, an object already there included.
RECURSIVE apply_deep_reset(_, _, _, _, _)
apply_deep_reset(names, i, assign, output, p) ==
    IF i = Len(names)
    THEN MapInsert(output, p, names[i], assign)
    ELSE apply_deep_reset(names, i + 1, assign,
                          MapInsert(output, p, names[i], [q \in {<<>>} |-> Obj]),
                          Append(p, names[i]))

\* apply_deep, the loop over the intermediate names (lines 196-203) and the
\* final insert (line 204); p is the node `output` points at.
RECURSIVE apply_deep_from(_, _, _, _, _)
apply_deep_from(names, i, assign, output, p) ==
    IF i = Len(names)
    THEN MapInsert(output, p, names[i], assign)
    ELSE LET r    == ValueGet(output, p, names[i])
             out2 == IF ~r.some \/ output[r.at].t # "obj"
                     THEN MapInsert(output, p, names[i], EmptyObject)
                     ELSE output
         IN  apply_deep_from(names, i + 1, assign, out2, Append(p, names[i]))

apply_deep(name, assign, output) ==
    apply_deep_from(Split(name, "/"), 1, assign, output, <<>>)

\* ------------------------------------------------------------------ interpolation
Letters ==
    {"a", "b", "c", "d", "e", "f", "g", "h", "i", "j", "k", "l", "m",
     "n", "o", "p", "q", "r", "s", "t", "u", "v", "w", "x", "y", "z",
     "A", "B", "C", "D", "E", "F", "G", "H", "I", "J", "K", "L", "M",
     "N", "O", "P", "Q", "R", "S", "T", "U", "V", "W", "X", "Y", "Z"}
Digits == {"0", "1", "2", "3", "4", "5", "6", "7", "8", "9"}
\* The character class [A-Za-z0-9_-] of the regex.
NameChars == Letters \cup Digits \cup {"_", "-"}

Undefined == <<"u", "n", "d", "e", "f", "i", "n", "e", "d">>

\* Mutant of NameLen: a name is one character.
NameLen_one(s, i) == IF i <= Len(s) /\ s[i] \in NameChars THEN 1 ELSE 0

\* The longest run of name characters of s that starts at i.
NameLen(s, i) ==
    Max({n \in 0..(Len(s) + 1 - i) : \A k \in i..(i + n - 1) : s[k] \in NameChars})

\* Regex::replace_all from position i: the leftmost match is replaced and the
\* scan goes on after it; a `$` that starts no match is kept.
RECURSIVE replace_all(_, _, _)
replace_all(s, i, vars) ==
    IF i > Len(s) THEN <<>>
    ELSE IF s[i] = "$" /\ i < Len(s) /\ s[i + 1] = "$"
    THEN <<"$">> \o replace_all(s, i + 2, vars)
    ELSE IF s[i] = "$" /\ NameLen(s, i + 1) > 0
    THEN LET n    == NameLen(s, i + 1)
             name == SubSeq(s, i + 1, i + n)
         IN  (IF name \in DOMAIN vars THEN vars[name] ELSE Undefined)
                 \o replace_all(s, i + 1 + n, vars)
    ELSE <<s[i]>> \o replace_all(s, i + 1, vars)

apply_message(message, vars) == replace_all(message, 1, vars)

\* ------------------------------------------------------------------ state
VARIABLES
    \* configuration, fixed by MessageLocator::new
    supported_locales,        \* _supported_locales
    locale_path_components,   \* _locale_path_components: locale -> code
    default_locale,           \* _default_locale
    fallbacks,                \* _fallbacks: locale -> list of locales
    base_file_names,          \* _assets_base_file_names
    clean_unused,             \* _assets_clean_unused
    \* the one Rc<HashMap<Locale, Value>> all handles of a locator share
    assets,
    \* the MessageLocator values (handles) alive: each owns one Rc reference
    alive,
    current_locale,           \* _current_locale of each handle
    \* the load call in flight on each handle
    pc,                       \* "idle" | "loading"
    requested,                \* the argument of the call (None: the default)
    new_locale,               \* the resolved target
    to_load,                  \* the closure computed at lines 131-132
    pre,                      \* assets and _current_locale as the call began
    \* the last call that returned (or aborted) and what it returned
    ret,
    \* "running", or how the process ended
    status,
    nloads,
    ngets

cfg_vars == <<supported_locales, locale_path_components, default_locale,
              fallbacks, base_file_names, clean_unused>>
vars == <<supported_locales, locale_path_components, default_locale,
          fallbacks, base_file_names, clean_unused, assets, alive,
          current_locale, pc, requested, new_locale, to_load, pre, ret,
          status, nloads, ngets>>

\* An empty HashMap<Locale, _>.
EmptyMap == [l \in {} |-> EmptyObject]

\* ------------------------------------------------------------------ fallback closure
\* enumerate_fallbacks(locale, output) at call depth `depth`: the output set
\* after the call, or overflow when the recursion exhausts the stack.
RECURSIVE enumerate_fallbacks(_, _, _, _), enumerate_list(_, _, _, _, _)
enumerate_fallbacks(fb, locale, output, depth) ==
    IF depth > StackLimit THEN [overflow |-> TRUE, output |-> output]
    ELSE IF locale \in DOMAIN fb
    THEN enumerate_list(fb, fb[locale], 1, output, depth)
    ELSE [overflow |-> FALSE, output |-> output]

\* Mutant of enumerate_list: the fallbacks of a fallback are not followed.
enumerate_list_direct(fb, list, i, output, depth) ==
    [overflow |-> FALSE, output |-> output \cup {list[j] : j \in i..Len(list)}]

\* Mutant of enumerate_list: a fallback that is already in the output is not
\* entered again.
RECURSIVE enumerate_list_visited(_, _, _, _, _)
enumerate_list_visited(fb, list, i, output, depth) ==
    IF i > Len(list) THEN [overflow |-> FALSE, output |-> output]
    ELSE IF list[i] \in output
    THEN enumerate_list_visited(fb, list, i + 1, output, depth)
    ELSE LET r == enumerate_fallbacks(fb, list[i], output \cup {list[i]}, depth + 1)
         IN  IF r.overflow THEN r
             ELSE enumerate_list_visited(fb, list, i + 1, r.output, depth)

\* The loop `for item in list.iter()` of enumerate_fallbacks from item i on.
enumerate_list(fb, list, i, output, depth) ==
    IF i > Len(list) THEN [overflow |-> FALSE, output |-> output]
    ELSE LET r == enumerate_fallbacks(fb, list[i], output \cup {list[i]}, depth + 1)
         IN  IF r.overflow THEN r
             ELSE enumerate_list(fb, list, i + 1, r.output, depth)

\* Mutant of locale_seq: every locale that has a fallback list is taken too.
locale_seq_keys(fb, c) == [overflow |-> FALSE, output |-> {c} \cup DOMAIN fb]

\* hashset![c]; enumerate_fallbacks(c, &mut r)  (load and current_locale_seq)
locale_seq(fb, c) == enumerate_fallbacks(fb, c, {c}, 1)

\* ------------------------------------------------------------------ fragment loading
\* What the transport and the parser give for one fragment of one locale:
\* the read fails, the bytes are no JSON document, or a parsed value.
FetchErr == [kind |-> "fetch_err", v |-> EmptyObject]
ParseErr == [kind |-> "parse_err", v |-> EmptyObject]
Ok(v) == [kind |-> "ok", v |-> v]

KeyM == <<"m">>
\* The message each locale's translators wrote for the key "m": plain text,
\* text with a `$name` token, with the `$$` escape, and with a lone `$`.
Template(l) ==
    CASE l = "en" -> <<"e", "n">>
      [] l = "pt" -> <<"p", "t", " ", "$", "n">>
      [] l = "fr" -> <<"$", "$", "f", "r">>
      [] l = "de" -> <<"d", "e", "$">>

NameUnderscore == <<"_">>
NameAB == <<"a", "/", "b">>

NameA == <<"a">>
NameB == <<"b">>
NameAX == <<"a", "/", "x">>

\* The JSON string "<text>".
StrDoc(text) == [q \in {<<>>} |-> Str(text)]
\* {"x": {"y": "<text>"}}
DocXY(text) ==
    MapInsert(EmptyObject, <<>>, <<"x">>,
              MapInsert(EmptyObject, <<>>, <<"y">>, StrDoc(text)))
\* a.json: {"x": {"y": "1"}, "x_f": "3", "x_1": {"5": "4"}}
DocA ==
    MapInsert(MapInsert(DocXY(<<"1">>), <<>>, <<"x", "_", "f">>, StrDoc(<<"3">>)),
              <<>>, <<"x", "_", "1">>,
              MapInsert(EmptyObject, <<>>, <<"5">>, StrDoc(<<"4">>)))
\* b.json: {"x": {"y": "2"}}
DocB == DocXY(<<"2">>)
\* a/x.json: {"y": "2"}
DocAX == MapInsert(EmptyObject, <<>>, <<"y">>, StrDoc(<<"2">>))

\* The documents the fragment file `name` of locale l may hold.  The fragment
\* "_": {"m": "<template>"} or {}.  The fragments "a", "b" and "a/x": the
\* documents above.  Any other fragment: the JSON string "<code>".
Contents(l, name) ==
    IF name = NameUnderscore
    THEN { MapInsert(EmptyObject, <<>>, KeyM, [q \in {<<>>} |-> Str(Template(l))]),
           EmptyObject }
    ELSE IF name = NameA THEN {DocA}
    ELSE IF name = NameB THEN {DocB}
    ELSE IF name = NameAX THEN {DocAX}
    ELSE { [q \in {<<>>} |-> Str(Code(l))] }

FetchOutcomes(l, name) == {FetchErr, ParseErr} \cup {Ok(v) : v \in Contents(l, name)}

\* What the fetches of the fragments `names` of locale l may give, in order.
RECURSIVE FetchSeqs(_, _)
FetchSeqs(l, names) ==
    IF Len(names) = 0 THEN {<<>>}
    ELSE { <<o>> \o rest : o \in FetchOutcomes(l, names[1]),
                           rest \in FetchSeqs(l, Tail(names)) }

\* Mutant of load_single_locale_from: the fragments are merged last to first.
RECURSIVE load_single_locale_rev(_, _, _, _, _, _)
load_single_locale_rev(names, comps, locale, outs, i, r) ==
    IF i > Len(names) THEN [kind |-> "some", doc |-> r]
    ELSE IF locale \notin DOMAIN comps
    THEN [kind |-> "panic_fallback", doc |-> r]
    ELSE IF outs[Len(names) + 1 - i].kind = "fetch_err" THEN [kind |-> "none", doc |-> r]
    ELSE IF outs[Len(names) + 1 - i].kind = "parse_err" THEN [kind |-> "panic_parse", doc |-> r]
    ELSE load_single_locale_rev(names, comps, locale, outs, i + 1,
                                apply_deep(names[Len(names) + 1 - i],
                                           outs[Len(names) + 1 - i].v, r))

\* load_single_locale from fragment i on, r being the document built so far;
\* outs[i] is what the fetch of fragment i gives.
RECURSIVE load_single_locale_from(_, _, _, _, _, _)
load_single_locale_from(names, comps, locale, outs, i, r) ==
    IF i > Len(names) THEN [kind |-> "some", doc |-> r]
    ELSE IF locale \notin DOMAIN comps
    THEN [kind |-> "panic_fallback", doc |-> r]
    ELSE IF outs[i].kind = "fetch_err" THEN [kind |-> "none", doc |-> r]
    ELSE IF outs[i].kind = "parse_err" THEN [kind |-> "panic_parse", doc |-> r]
    ELSE load_single_locale_from(names, comps, locale, outs, i + 1,
                                 apply_deep(names[i], outs[i].v, r))

load_single_locale(names, comps, locale, outs) ==
    load_single_locale_from(names, comps, locale, outs, 1, EmptyObject)

\* Every result load_single_locale can give for a locale.
LocaleResults(names, comps, locale) ==
    { load_single_locale(names, comps, locale, outs) :
        outs \in FetchSeqs(locale, names) }

\* The loop `for locale in to_load` of load (lines 135-141) from position i of
\* the iteration order, res[l] being the result of load_single_locale for l.
\* A return or a panic inside the loop drops new_assets.
\* Mutant of load_loop: a locale that failed to load is skipped (`continue`
\* for `return false`) and the others are kept.
load_loop_skip(order, res, i, new_assets) ==
    [kind |-> "some",
     new_assets |-> [l \in {x \in Range(order) : res[x].kind = "some"} |-> res[l].doc],
     fetch_failed |-> \E x \in Range(order) : res[x].kind = "none"]

\* fetch_failed records that a load_single_locale gave None (the loop then
\* printed "Failed to load resource").
RECURSIVE load_loop(_, _, _, _)
load_loop(order, res, i, new_assets) ==
    IF i > Len(order)
    THEN [kind |-> "some", new_assets |-> new_assets, fetch_failed |-> FALSE]
    ELSE IF res[order[i]].kind # "some"
    THEN [kind |-> res[order[i]].kind, new_assets |-> EmptyMap,
          fetch_failed |-> res[order[i]].kind = "none"]
    ELSE load_loop(order, res, i + 1,
                   [l \in DOMAIN new_assets \cup {order[i]} |->
                       IF l = order[i] THEN res[l].doc ELSE new_assets[l]])

\* Some sequence of the members of S.
RECURSIVE SeqOf(_)
SeqOf(S) ==
    IF S = {} THEN <<>>
    ELSE LET x == CHOOSE y \in S : TRUE IN <<x>> \o SeqOf(S \ {x})

\* Iteration orders of the HashSet S: one for each locale that can come first.
\* The loop of load stops at the first locale that fails and, when none does,
\* builds the same map in any order, so these orders give every outcome that
\* the |S|! orders give.
Orders(S) == { <<first>> \o SeqOf(S \ {first}) : first \in S }

\* Mutant of commit: the store is never cleared.
commit_no_clear(clean, store, new_assets) ==
    [l \in DOMAIN store \cup DOMAIN new_assets |->
        IF l \in DOMAIN new_assets THEN new_assets[l] ELSE store[l]]

\* Mutant of commit: a locale already stored keeps its old document.
commit_keep_old(clean, store, new_assets) ==
    LET kept == IF clean THEN {} ELSE DOMAIN store
    IN  [l \in kept \cup DOMAIN new_assets |->
            IF l \in kept THEN store[l] ELSE new_assets[l]]

\* Mutant of commit: the clear is done, the inserts are not.
commit_clear_only(clean, store, new_assets) ==
    IF clean THEN EmptyMap ELSE store

\* Lines 142-148: the store after the clear (when clean_unused) and the inserts.
commit(clean, store, new_assets) ==
    LET kept == IF clean THEN {} ELSE DOMAIN store
    IN  [l \in kept \cup DOMAIN new_assets |->
            IF l \in DOMAIN new_assets THEN new_assets[l] ELSE store[l]]

\* ------------------------------------------------------------------ lookup
\* resolve_id: the walk down the identifier's segments from segment i on; r is
\* the node reached (none: a step before found nothing).
RECURSIVE resolve_id_from(_, _, _, _)
resolve_id_from(doc, id, i, r) ==
    IF i > Len(id)
    THEN IF r.some /\ doc[r.at].t = "str"
         THEN [some |-> TRUE, s |-> doc[r.at].s]
         ELSE [some |-> FALSE, s |-> <<>>]
    ELSE IF ~r.some THEN [some |-> FALSE, s |-> <<>>]
    ELSE resolve_id_from(doc, id, i + 1, ValueGet(doc, r.at, id[i]))

\* resolve_id(self._assets.get(&locale), id)
resolve_id(store, locale, id) ==
    IF locale \in DOMAIN store
    THEN resolve_id_from(store[locale], id, 1, [some |-> TRUE, at |-> <<>>])
    ELSE [some |-> FALSE, s |-> <<>>]

\* get_formatted_with_locale at call depth `depth`, and its loop over the
\* fallbacks from item i on.
RECURSIVE get_formatted_with_locale(_, _, _, _, _, _), get_fallbacks_from(_, _, _, _, _, _, _)
get_formatted_with_locale(fb, store, locale, id, vars_, depth) ==
    IF depth > StackLimit THEN [some |-> FALSE, s |-> <<>>, overflow |-> TRUE]
    ELSE LET message == resolve_id(store, locale, id)
         IN  IF message.some
             THEN [some |-> TRUE, s |-> apply_message(message.s, vars_), overflow |-> FALSE]
             ELSE IF locale \in DOMAIN fb
             THEN get_fallbacks_from(fb, store, fb[locale], 1, id, vars_, depth)
             ELSE [some |-> FALSE, s |-> <<>>, overflow |-> FALSE]

\* Mutant of get_fallbacks_from: the fallbacks are tried last to first.
RECURSIVE get_fallbacks_rev(_, _, _, _, _, _, _)
get_fallbacks_rev(fb, store, list, i, id, vars_, depth) ==
    IF i > Len(list) THEN [some |-> FALSE, s |-> <<>>, overflow |-> FALSE]
    ELSE LET r == get_formatted_with_locale(fb, store, list[Len(list) + 1 - i],
                                            id, vars_, depth + 1)
         IN  IF r.some \/ r.overflow THEN r
             ELSE get_fallbacks_rev(fb, store, list, i + 1, id, vars_, depth)

get_fallbacks_from(fb, store, list, i, id, vars_, depth) ==
    IF i > Len(list) THEN [some |-> FALSE, s |-> <<>>, overflow |-> FALSE]
    ELSE LET r == get_formatted_with_locale(fb, store, list[i], id, vars_, depth + 1)
         IN  IF r.some \/ r.overflow THEN r
             ELSE get_fallbacks_from(fb, store, list, i + 1, id, vars_, depth)

\* A format argument: a &'static str or a stringifiable value (its text in
\* s), or a variable map (in m).
SuffixArg(text) == [kind |-> "str", s |-> text, m |-> [k \in {} |-> <<>>]]
MapArg(m) == [kind |-> "map", s |-> <<>>, m |-> m]
NoVars == [k \in {} |-> <<>>]

\* Mutant of format_options: a suffix is joined with a dot.
RECURSIVE format_options_dot(_, _, _, _)
format_options_dot(options, i, id, variables) ==
    IF i > Len(options) THEN [id |-> id, variables |-> variables]
    ELSE IF options[i].kind = "str"
    THEN format_options_dot(options, i + 1, id \o <<".">> \o options[i].s, variables)
    ELSE format_options_dot(options, i + 1, id, options[i].m)

\* The loop over the options of get_formatted (lines 226-238): the identifier
\* with its suffixes, and the variables.
RECURSIVE format_options(_, _, _, _)
format_options(options, i, id, variables) ==
    IF i > Len(options) THEN [id |-> id, variables |-> variables]
    ELSE IF options[i].kind = "str"
    THEN format_options(options, i + 1, id \o <<"_">> \o options[i].s, variables)
    ELSE format_options(options, i + 1, id, options[i].m)

\* Mutant of get_formatted: a miss gives the identifier as it was passed,
\* without the suffixes.
get_formatted_base_id(fb, store, cur, id, options) ==
    LET o    == format_options(options, 1, id, NoVars)
        path == Split(o.id, ".")
    IN  IF cur = None
        THEN [s |-> id, overflow |-> FALSE]
        ELSE LET r == get_formatted_with_locale(fb, store, cur, path, o.variables, 1)
             IN  IF r.overflow THEN [s |-> <<>>, overflow |-> TRUE]
                 ELSE IF r.some THEN [s |-> r.s, overflow |-> FALSE]
                 ELSE [s |-> id, overflow |-> FALSE]

\* get_formatted on a handle whose _current_locale is cur.
get_formatted(fb, store, cur, id, options) ==
    LET o    == format_options(options, 1, id, NoVars)
        path == Split(o.id, ".")
    IN  IF cur = None
        THEN [s |-> Join(path, "."), overflow |-> FALSE]
        ELSE LET r == get_formatted_with_locale(fb, store, cur, path, o.variables, 1)
             IN  IF r.overflow THEN [s |-> <<>>, overflow |-> TRUE]
                 ELSE IF r.some THEN [s |-> r.s, overflow |-> FALSE]
                 ELSE [s |-> Join(path, "."), overflow |-> FALSE]

\* get(id)
get(fb, store, cur, id) == get_formatted(fb, store, cur, id, <<>>)

\* ------------------------------------------------------------------ configurations
\* A fallback list: one or two distinct locales of L.
Lists(L) == {<<a>> : a \in L} \cup {p \in L \X L : p[1] # p[2]}

RECURSIVE EdgeCount(_, _)
EdgeCount(f, K) ==
    IF K = {} THEN 0
    ELSE LET k == CHOOSE x \in K : TRUE
         IN  Len(f[k]) + EdgeCount(f, K \ {k})

\* The fallback maps over the locales L with at most n entries in all.
Graphs(L, n) ==
    UNION { {f \in [K -> Lists(L)] : EdgeCount(f, K) <= n} :
              K \in {K \in SUBSET L : Cardinality(K) <= n} }

IdleFrame == [assets |-> EmptyMap, current |-> None]

NoRet ==
    [op |-> "new", h |-> 1, arg |-> None, target |-> None, val |-> "",
     id |-> <<>>, options |-> <<>>, str |-> <<>>, set |-> {},
     fetch_failed |-> FALSE, parse_failed |-> FALSE, fetched_all |-> FALSE,
     built |-> EmptyMap, pre_assets |-> EmptyMap, pre_current |-> None,
     doc_in |-> EmptyObject, value |-> EmptyObject, doc_out |-> EmptyObject]

\* MessageLocator::new(options): one handle, no locale loaded, an empty store.
new(supported, default, fb, names, clean) ==
    /\ supported_locales = supported
    /\ locale_path_components = [l \in supported |-> Code(l)]
    /\ default_locale = default
    /\ fallbacks = fb
    /\ base_file_names = names
    /\ clean_unused = clean
    /\ assets = EmptyMap
    /\ alive = {1}
    /\ current_locale = [h \in Handles |-> None]
    /\ pc = [h \in Handles |-> "idle"]
    /\ requested = [h \in Handles |-> None]
    /\ new_locale = [h \in Handles |-> None]
    /\ to_load = [h \in Handles |-> {}]
    /\ pre = [h \in Handles |-> IdleFrame]
    /\ ret = NoRet
    /\ status = "running"
    /\ nloads = 0
    /\ ngets = 0

\* ------------------------------------------------------------------ operations
\* Mutant of supports_locale: every locale passes.
supports_locale_any(arg) == TRUE

\* supports_locale
supports_locale(arg) == arg \in supported_locales

\* load, up to its first suspension (lines 126-134).
LoadBegin(h, arg) ==
    /\ status = "running"
    /\ h \in alive
    /\ pc[h] = "idle"
    /\ nloads' = nloads + 1
    /\ LET target == IF arg = None THEN default_locale ELSE arg
           seq    == locale_seq(fallbacks, target)
           r      == [NoRet EXCEPT !.op = "load", !.h = h, !.arg = arg,
                                   !.target = target,
                                   !.pre_assets = assets,
                                   !.pre_current = current_locale[h]]
       IN  IF ~supports_locale(target)
           THEN /\ status' = "panic_unsupported"
                /\ ret' = [r EXCEPT !.val = "panic_unsupported"]
                /\ UNCHANGED <<pc, requested, new_locale, to_load, pre>>
           ELSE IF seq.overflow
           THEN /\ status' = "stack_overflow"
                /\ ret' = [r EXCEPT !.val = "stack_overflow"]
                /\ UNCHANGED <<pc, requested, new_locale, to_load, pre>>
           ELSE /\ pc' = [pc EXCEPT ![h] = "loading"]
                /\ requested' = [requested EXCEPT ![h] = arg]
                /\ new_locale' = [new_locale EXCEPT ![h] = target]
                /\ to_load' = [to_load EXCEPT ![h] = seq.output]
                /\ pre' = [pre EXCEPT ![h] = [assets |-> assets,
                                              current |-> current_locale[h]]]
                /\ UNCHANGED <<status, ret>>
    /\ UNCHANGED <<cfg_vars, assets, alive, current_locale, ngets>>

\* The maps from the locales S to a result of load_single_locale for each.
RECURSIVE ResultMaps(_)
ResultMaps(S) ==
    IF S = {} THEN {[l \in {} |-> [kind |-> "none", doc |-> EmptyObject]]}
    ELSE LET k == CHOOSE x \in S : TRUE
         IN  { [l \in DOMAIN m \cup {k} |-> IF l = k THEN r ELSE m[l]] :
                 m \in ResultMaps(S \ {k}),
                 r \in LocaleResults(base_file_names, locale_path_components, k) }

\* What the loop of load can end with on handle h: every iteration order of
\* to_load with every result of every fetch.
LoopOutcomes(h) ==
    { load_loop(order, res, 1, EmptyMap) :
        order \in Orders(to_load[h]), res \in ResultMaps(to_load[h]) }

\* load, from the fetches to its return (lines 135-153).
LoadFinish(h) ==
    /\ status = "running"
    /\ h \in alive
    /\ pc[h] = "loading"
    /\ \E out \in LoopOutcomes(h) :
          LET r == [NoRet EXCEPT !.op = "load", !.h = h, !.arg = requested[h],
                                 !.target = new_locale[h],
                                 !.fetch_failed = out.fetch_failed,
                                 !.parse_failed = (out.kind = "panic_parse"),
                                 !.fetched_all = (out.kind = "some"),
                                 !.pre_assets = pre[h].assets,
                                 !.pre_current = pre[h].current]
          IN  IF out.kind = "none"
              THEN /\ ret' = [r EXCEPT !.val = "false"]
                   /\ UNCHANGED <<status, assets, current_locale>>
              ELSE IF out.kind # "some"
              THEN /\ ret' = [r EXCEPT !.val = out.kind]
                   /\ status' = out.kind
                   /\ UNCHANGED <<assets, current_locale>>
              ELSE IF Cardinality(alive) # 1
              THEN \* Rc::get_mut gives None while another handle holds the Rc
                   /\ ret' = [r EXCEPT !.val = "panic_shared"]
                   /\ status' = "panic_shared"
                   /\ UNCHANGED <<assets, current_locale>>
              ELSE /\ assets' = commit(clean_unused, assets, out.new_assets)
                   /\ current_locale' = [current_locale EXCEPT ![h] = new_locale[h]]
                   /\ ret' = [r EXCEPT !.val = "true", !.built = out.new_assets]
                   /\ UNCHANGED status
    /\ pc' = [pc EXCEPT ![h] = "idle"]
    /\ requested' = [requested EXCEPT ![h] = None]
    /\ new_locale' = [new_locale EXCEPT ![h] = None]
    /\ to_load' = [to_load EXCEPT ![h] = {}]
    /\ pre' = [pre EXCEPT ![h] = IdleFrame]
    /\ UNCHANGED <<cfg_vars, alive, nloads, ngets>>

\* Clone::clone: a new handle on the same Rc, with a copy of _current_locale.
Clone(h, h2) ==
    /\ status = "running"
    /\ h \in alive
    /\ pc[h] = "idle"
    /\ h2 \notin alive
    /\ alive' = alive \cup {h2}
    /\ current_locale' = [current_locale EXCEPT ![h2] = current_locale[h]]
    /\ ret' = [NoRet EXCEPT !.op = "clone", !.h = h]
    /\ UNCHANGED <<cfg_vars, assets, pc, requested, new_locale, to_load, pre,
                   status, nloads, ngets>>

\* A handle goes out of scope: its Rc reference is released.
Drop(h) ==
    /\ status = "running"
    /\ h \in alive
    /\ pc[h] = "idle"
    /\ alive' = alive \ {h}
    /\ current_locale' = [current_locale EXCEPT ![h] = None]
    /\ ret' = [NoRet EXCEPT !.op = "drop", !.h = h]
    /\ UNCHANGED <<cfg_vars, assets, pc, requested, new_locale, to_load, pre,
                   status, nloads, ngets>>

\* get (no options) and get_formatted.
Get(h, id, options) ==
    /\ status = "running"
    /\ h \in alive
    /\ pc[h] = "idle"
    /\ ngets' = ngets + 1
    /\ LET r == get_formatted(fallbacks, assets, current_locale[h], id, options)
       IN  /\ ret' = [NoRet EXCEPT !.op = "get", !.h = h, !.id = id,
                                   !.options = options, !.str = r.s,
                                   !.val = IF r.overflow THEN "stack_overflow" ELSE "ok"]
           /\ status' = IF r.overflow THEN "stack_overflow" ELSE status
    /\ UNCHANGED <<cfg_vars, assets, alive, current_locale, pc, requested,
                   new_locale, to_load, pre, nloads>>

\* current_locale_seq
CurrentLocaleSeq(h) ==
    /\ status = "running"
    /\ h \in alive
    /\ pc[h] = "idle"
    /\ ngets' = ngets + 1
    /\ LET c == current_locale[h]
           r == IF c = None THEN [overflow |-> FALSE, output |-> {}]
                ELSE locale_seq(fallbacks, c)
       IN  /\ ret' = [NoRet EXCEPT !.op = "current_locale_seq", !.h = h,
                                   !.set = r.output,
                                   !.val = IF r.overflow THEN "stack_overflow" ELSE "ok"]
           /\ status' = IF r.overflow THEN "stack_overflow" ELSE status
    /\ UNCHANGED <<cfg_vars, assets, alive, current_locale, pc, requested,
                   new_locale, to_load, pre, nloads>>

\* ------------------------------------------------------------------ the locator with its clones
MainLocales == {"en", "pt", "fr"}
\* The fragment-name lists a locator is configured with.
NameLists == {<<>>, <<NameUnderscore, NameAB>>}

Init ==
    \E supported \in {S \in SUBSET MainLocales : Cardinality(S) >= 2}, fb \in Graphs(MainLocales, 2),
       names \in NameLists, clean \in BOOLEAN :
        new(supported, "en", fb, names, clean)

Next ==
    \/ \E h \in Handles, arg \in MainLocales \cup {None} :
          nloads < MaxLoads /\ LoadBegin(h, arg)
    \/ \E h \in Handles : LoadFinish(h)
    \/ \E h \in Handles, h2 \in Handles : Clone(h, h2)
    \/ \E h \in Handles : Drop(h)

Spec == Init /\ [][Next]_vars

\* ------------------------------------------------------------------ one handle, lookups
IdM == <<"_", ".", "m">>
IdX == <<"_", ".", "x">>
IdFragment == <<"_">>
VarN == [k \in {<<"n">>} |-> <<"Z">>]

\* The calls of get and get_formatted that are made: (identifier, options).
Probes ==
    { <<IdM, <<>>>>, <<IdX, <<>>>>, <<IdFragment, <<>>>>,
      <<IdM, <<MapArg(VarN)>>>>, <<IdM, <<SuffixArg(<<"f">>)>>>> }

InitLookup ==
    \E fb \in Graphs(Locales, MaxEdges) :
        new(Locales, "en", fb, <<NameUnderscore>>, TRUE)

NextLookup ==
    \/ \E h \in Handles, arg \in Locales \cup {None} :
          nloads < 1 /\ LoadBegin(h, arg)
    \/ \E h \in Handles : LoadFinish(h)
    \/ \E h \in Handles, p \in Probes : ngets < MaxGets /\ Get(h, p[1], p[2])
    \/ \E h \in Handles : ngets < MaxGets /\ CurrentLocaleSeq(h)

SpecLookup == InitLookup /\ [][NextLookup]_vars

\* ------------------------------------------------------------------ one locale, messages
\* apply_message(message, vars): the interpolation get_formatted_with_locale
\* applies to a template it found.
ApplyMessage(message, vars_) ==
    /\ status = "running"
    /\ ngets' = ngets + 1
    /\ ret' = [NoRet EXCEPT !.op = "apply_message", !.id = message,
                            !.options = <<MapArg(vars_)>>,
                            !.str = apply_message(message, vars_), !.val = "ok"]
    /\ UNCHANGED <<cfg_vars, assets, alive, current_locale, pc, requested,
                   new_locale, to_load, pre, status, nloads>>

NoFallbacks == [l \in {} |-> <<>>]
\* The fragment-name lists: disjoint names, and names one inside the other in
\* both orders.
MergeNameLists == {<<NameA, NameB>>, <<NameA, NameAX>>, <<NameAX, NameA>>}

TemplateChars == {"$", "a", "-", " "}
Templates == UNION {[1..n -> TemplateChars] : n \in 0..MaxLen}
\* Variable maps: none; a value that holds a token; names one a prefix of the
\* other.
VarMaps ==
    { NoVars,
      [k \in {<<"a">>} |-> <<"$", "a">>],
      [k \in {<<"a">>, <<"a", "-">>} |-> IF k = <<"a">> THEN <<"Z">> ELSE <<"Y">>] }

BaseIds == {<<"a">>, <<"a", ".", "x">>, <<"b", ".", "x", ".", "y">>}
\* Format arguments: the suffix "f", the number 1.5, two variable maps.
OptionArgs ==
    {SuffixArg(<<"f">>), SuffixArg(<<"1", ".", "5">>), MapArg(VarN), MapArg(NoVars)}
OptionSeqs == UNION {[1..n -> OptionArgs] : n \in 0..MaxOptions}

InitMessages ==
    \E names \in MergeNameLists : new({"en"}, "en", NoFallbacks, names, TRUE)

NextMessages ==
    \/ nloads < 1 /\ LoadBegin(1, None)
    \/ LoadFinish(1)
    \/ \E id \in BaseIds, options \in OptionSeqs : ngets < 1 /\ Get(1, id, options)
    \/ \E message \in Templates, vars_ \in VarMaps :
          ngets < 1 /\ ApplyMessage(message, vars_)

SpecMessages == InitMessages /\ [][NextMessages]_vars

\* ------------------------------------------------------------------ one fragment merged
\* apply_deep(name, assign, &mut output): the merge load_single_locale makes
\* for each fragment it parsed.
ApplyDeep(name, assign, output) ==
    /\ status = "running"
    /\ ngets' = ngets + 1
    /\ ret' = [NoRet EXCEPT !.op = "apply_deep", !.id = name, !.value = assign,
                            !.doc_in = output,
                            !.doc_out = apply_deep(name, assign, output),
                            !.val = "ok"]
    /\ UNCHANGED <<cfg_vars, assets, alive, current_locale, pc, requested,
                   new_locale, to_load, pre, status, nloads>>

\* {"<key>": v}
Under(key, v) == MapInsert(EmptyObject, <<>>, key, v)
\* What the document built so far may hold under "a": a string, a number, an
\* empty object, {"x": {"y": "1"}}, {"x": "1"}, and the fragment a.json.
ValuesAtA ==
    { StrDoc(<<"s">>), [q \in {<<>>} |-> Other], EmptyObject, DocXY(<<"1">>),
      Under(<<"x">>, StrDoc(<<"1">>)), DocA }
\* The documents a fragment is merged into: with and without "a", with and
\* without another key "k".
MergeDocs ==
    {EmptyObject, Under(<<"k">>, StrDoc(<<"s">>))}
        \cup {Under(<<"a">>, v) : v \in ValuesAtA}
        \cup {MapInsert(Under(<<"a">>, v), <<>>, <<"k">>, StrDoc(<<"s">>)) : v \in ValuesAtA}
\* Fragment names: one to three segments, an empty name, an empty last segment.
MergeNames ==
    {NameA, NameB, NameAX, <<"a", "/", "x", "/", "y">>, <<>>, <<"a", "/">>}
\* Parsed fragment values: a string, an empty object, {"y": "2"}.
MergeValues == {StrDoc(<<"v">>), EmptyObject, DocAX}

InitMerge == new({"en"}, "en", NoFallbacks, <<NameA>>, TRUE)

NextMerge ==
    \E name \in MergeNames, assign \in MergeValues, output \in MergeDocs :
        ngets < 1 /\ ApplyDeep(name, assign, output)

SpecMerge == InitMerge /\ [][NextMerge]_vars

\* ------------------------------------------------------------------ what the claims speak of
\* The least set that holds S and every declared fallback of its members.
RECURSIVE ReachFrom(_, _)
ReachFrom(fb, S) ==
    LET next == S \cup UNION {Range(fb[x]) : x \in S \cap DOMAIN fb}
    IN  IF next = S THEN S ELSE ReachFrom(fb, next)

\* The fallback closure of l: l and all that one or more fallback edges reach.
Closure(fb, l) == ReachFrom(fb, {l})

\* Some locale reaches itself through one or more fallback edges.
Cyclic(fb) == \E l \in DOMAIN fb : l \in ReachFrom(fb, Range(fb[l]))

\* A cycle can be reached from l.
CycleFrom(fb, l) ==
    \E x \in Closure(fb, l) \cap DOMAIN fb : x \in ReachFrom(fb, Range(fb[x]))

\* The depth-first pre-order from l over the declared fallback lists (to the
\* given depth): l, then the pre-order of each fallback in declared order.
RECURSIVE PreOrder(_, _, _), PreOrderList(_, _, _, _)
PreOrder(fb, l, depth) ==
    IF depth = 0 \/ l \notin DOMAIN fb THEN <<l>>
    ELSE <<l>> \o PreOrderList(fb, fb[l], 1, depth - 1)

PreOrderList(fb, list, i, depth) ==
    IF i > Len(list) THEN <<>>
    ELSE PreOrder(fb, list[i], depth) \o PreOrderList(fb, list, i + 1, depth)

\* The store holds a string at the path for the locale.
Defines(store, l, path) ==
    /\ l \in DOMAIN store
    /\ path \in DOMAIN store[l]
    /\ store[l][path].t = "str"

\* The identifier text a probe asks for, suffixes included.
ProbeText(p) ==
    IF p = <<IdM, <<SuffixArg(<<"f">>)>>>> THEN <<"_", ".", "m", "_", "f">>
    ELSE p[1]

\* The path of a probe: the segments of its text between the dots.
ProbePath(p) ==
    CASE ProbeText(p) = IdM -> <<<<"_">>, <<"m">>>>
      [] ProbeText(p) = IdX -> <<<<"_">>, <<"x">>>>
      [] ProbeText(p) = IdFragment -> <<<<"_">>>>
      [] OTHER -> <<<<"_">>, <<"m", "_", "f">>>>

\* The variables a probe passes.
ProbeVars(p) == IF p = <<IdM, <<MapArg(VarN)>>>> THEN VarN ELSE NoVars

\* The first locale of the sequence that defines the path, if any.
FirstDefining(store, order, path) ==
    LET hits == {i \in DOMAIN order : Defines(store, order[i], path)}
    IN  IF hits = {} THEN None
        ELSE order[CHOOSE i \in hits : \A j \in hits : i <= j]

\* What a get on handle h gives for a probe, computed from the state.
GetNow(h, p) == get_formatted(fallbacks, assets, current_locale[h], p[1], p[2])

\* ------------------------------------------------------------------ claims

C2_LoadAlwaysReturns ==
    (ret.op = "load" /\ supports_locale(ret.target)) =>
        /\ ret.val \in {"true", "false"}
        /\ status = "running"

\* C3: a load whose resolved target is not supported fails with a typed
\* failure (no abort), fetches nothing and changes neither the store nor the
\* current locale.
C3_UnsupportedIsTypedFailure ==
    (ret.op = "load" /\ ~supports_locale(ret.target)) =>
        /\ status = "running"
        /\ ret.val = "false"
        /\ ~ret.fetch_failed /\ ~ret.fetched_all
        /\ assets = ret.pre_assets
        /\ current_locale[ret.h] = ret.pre_current

\* C4: with clean_unused set, after a load returned true the keys of the store
\* are exactly the fallback closure of the target, each stored document is the
\* one this load built, and the current locale is the target.
C4_CleanLoad ==
    (ret.op = "load" /\ ret.val = "true" /\ clean_unused) =>
        /\ DOMAIN assets = Closure(fallbacks, ret.target)
        /\ DOMAIN ret.built = Closure(fallbacks, ret.target)
        /\ \A l \in DOMAIN assets : assets[l] = ret.built[l]
        /\ current_locale[ret.h] = ret.target

\* A successful load with clean_unused that discarded a stored locale.
C4_Witness ==
    /\ ret.op = "load" /\ ret.val = "true" /\ clean_unused
    /\ DOMAIN ret.pre_assets \ Closure(fallbacks, ret.target) # {}
    /\ Cardinality(DOMAIN assets) >= 2

\* C5: with clean_unused unset, after a load returned true every locale of the
\* target's closure holds the document this load built, every locale stored
\* before the call and outside the closure still holds its old document, and
\* the current locale is the target.
C5_MergeLoad ==
    (ret.op = "load" /\ ret.val = "true" /\ ~clean_unused) =>
        /\ \A l \in Closure(fallbacks, ret.target) :
              /\ l \in DOMAIN assets
              /\ l \in DOMAIN ret.built
              /\ assets[l] = ret.built[l]
        /\ \A l \in DOMAIN ret.pre_assets \ Closure(fallbacks, ret.target) :
              /\ l \in DOMAIN assets
              /\ assets[l] = ret.pre_assets[l]
        /\ current_locale[ret.h] = ret.target

\* A successful merging load that kept a locale outside the closure and
\* overwrote a document of a locale inside it.
C5_Witness ==
    /\ ret.op = "load" /\ ret.val = "true" /\ ~clean_unused
    /\ DOMAIN ret.pre_assets \ Closure(fallbacks, ret.target) # {}
    /\ \E l \in DOMAIN ret.pre_assets \cap Closure(fallbacks, ret.target) :
          ret.pre_assets[l] # assets[l]

\* C6: with a locale loaded, get and get_formatted give the interpolated
\* template of the first locale, in the depth-first pre-order from the current
\* locale over the declared fallback lists, that holds a string at the
\* identifier's path (and the identifier when none does).
C6_ResolutionOrder ==
    (ret.op = "get" /\ current_locale[ret.h] # None) =>
        LET p     == <<ret.id, ret.options>>
            order == PreOrder(fallbacks, current_locale[ret.h], StackLimit)
            first == FirstDefining(assets, order, ProbePath(p))
        IN  /\ ret.val = "ok"
            /\ ret.str = IF first = None THEN ProbeText(p)
                         ELSE apply_message(assets[first][ProbePath(p)].s, ProbeVars(p))

\* L -> [F1, F2] and F1 -> [G]; L and F1 hold no string at the path, G and F2
\* do: get gave G's template, interpolated, which F2's is not.
C6_Witness ==
    /\ ret.op = "get" /\ ret.id = IdM /\ ret.options = <<>>
    /\ LET L == current_locale[ret.h]
       IN  /\ L \in DOMAIN fallbacks
           /\ Len(fallbacks[L]) = 2
           /\ LET F1 == fallbacks[L][1]
                  F2 == fallbacks[L][2]
              IN  /\ F1 \in DOMAIN fallbacks
                  /\ Len(fallbacks[F1]) = 1
                  /\ LET G == fallbacks[F1][1]
                     IN  /\ Cardinality({L, F1, F2, G}) = 4
                         /\ ~Defines(assets, L, ProbePath(<<IdM, <<>>>>))
                         /\ ~Defines(assets, F1, ProbePath(<<IdM, <<>>>>))
                         /\ Defines(assets, G, ProbePath(<<IdM, <<>>>>))
                         /\ Defines(assets, F2, ProbePath(<<IdM, <<>>>>))
                         /\ ret.str = apply_message(Template(G), NoVars)
                         /\ ret.str # apply_message(Template(F2), NoVars)
                         /\ ret.str # Template(G)

\* C7: when no locale of the current locale's fallback closure holds a string
\* at the path of the identifier (suffixes included), and when no locale is
\* loaded, get and get_formatted return the identifier text, suffixes
\* included, and do not fail.
C7_MissGivesIdentifier ==
    ret.op = "get" =>
        LET p     == <<ret.id, ret.options>>
            cur   == current_locale[ret.h]
            chain == IF cur = None THEN {} ELSE Closure(fallbacks, cur)
        IN  (\A l \in chain : ~Defines(assets, l, ProbePath(p))) =>
                /\ ret.str = ProbeText(p)
                /\ ret.val = "ok"
                /\ status = "running"

\* A suffixed identifier missed although the locale loaded holds the base
\* identifier: the text returned has the suffix.
C7_Witness ==
    /\ ret.op = "get" /\ ret.id = IdM /\ ret.options = <<SuffixArg(<<"f">>)>>
    /\ current_locale[ret.h] # None
    /\ Cardinality(Closure(fallbacks, current_locale[ret.h])) >= 2
    /\ Defines(assets, current_locale[ret.h], ProbePath(<<IdM, <<>>>>))
    /\ ret.str = <<"_", ".", "m", "_", "f">>

\* C8: load(None) with a supported default whose fragments all load returns
\* true and makes the default the current locale, and get("_.m") then gives
\* the string the default locale's fragment "_" holds under "m".
C8_LoadDefaultThenGet ==
    (ret.op = "load" /\ ret.arg = None /\ supports_locale(default_locale)
        /\ ret.fetched_all) =>
        /\ ret.val = "true"
        /\ status = "running"
        /\ current_locale[ret.h] = default_locale
        /\ Defines(assets, default_locale, ProbePath(<<IdM, <<>>>>)) =>
              GetNow(ret.h, <<IdM, <<>>>>).s =
                  assets[default_locale][ProbePath(<<IdM, <<>>>>)].s

\* C9: with a cycle in the fallback map the closure computation terminates
\* and gives the locales reachable from the target.
C9_CyclicClosureTerminates ==
    Cyclic(fallbacks) =>
        /\ status # "stack_overflow"
        /\ \A h \in Handles :
              pc[h] = "loading" => to_load[h] = Closure(fallbacks, new_locale[h])

\* C10: with no cycle in the fallback map, the locales a load loads and the
\* locales current_locale_seq returns are the target (the current locale)
\* with all that one or more fallback edges reach from it; for a locale with
\* no entry in the map, that locale alone.
C10_ClosureCorrect ==
    ~Cyclic(fallbacks) =>
        /\ status # "stack_overflow"
        /\ \A h \in Handles :
              pc[h] = "loading" =>
                  /\ to_load[h] = Closure(fallbacks, new_locale[h])
                  /\ new_locale[h] \notin DOMAIN fallbacks => to_load[h] = {new_locale[h]}
        /\ (ret.op = "load" /\ ret.val = "true") =>
              DOMAIN ret.built = Closure(fallbacks, ret.target)
        /\ ret.op = "current_locale_seq" =>
              ret.set = IF current_locale[ret.h] = None THEN {}
                        ELSE Closure(fallbacks, current_locale[ret.h])

\* current_locale_seq gave four locales, one of them reached only through a
\* fallback of a fallback.
C10_Witness ==
    /\ ret.op = "current_locale_seq"
    /\ ~Cyclic(fallbacks)
    /\ Cardinality(ret.set) = 4
    /\ \E l \in ret.set :
          /\ l # current_locale[ret.h]
          /\ l \notin Range(fallbacks[current_locale[ret.h]])

C12_ParseFailureReturnsFalse ==
    (ret.op = "load" /\ ret.parse_failed) =>
        /\ ret.val = "false"
        /\ status = "running"
        /\ assets = ret.pre_assets
        /\ current_locale[ret.h] = ret.pre_current

\* C13: a load whose closure holds a locale without a path component (a
\* fallback never declared supported) ends in the configuration error, whatever
\* the fragment-name list, the empty one included; and the store never holds a
\* document for such a locale.
C13_UndeclaredFallbackIsConfigError ==
    /\ \A l \in DOMAIN assets : l \in DOMAIN locale_path_components
    /\ (ret.op = "load" /\ supports_locale(ret.target)
          /\ ~CycleFrom(fallbacks, ret.target)
          /\ ~(Closure(fallbacks, ret.target) \subseteq DOMAIN locale_path_components)) =>
          ret.val = "panic_fallback"

\* C14: with a clone alive and no other load in flight, a load whose fragments
\* all load commits and returns true, and every handle's current locale and
\* get results are then those of the new store and the new current locale.
C14_HandlesShareCommittedState ==
    (ret.op = "load" /\ ret.fetched_all /\ Cardinality(alive) >= 2
        /\ \A h \in alive : pc[h] = "idle") =>
        /\ ret.val = "true"
        /\ status = "running"
        /\ \A h \in alive :
              /\ current_locale[h] = ret.target
              /\ \A p \in Probes :
                    GetNow(h, p) = get_formatted(fallbacks, assets, ret.target, p[1], p[2])

\* C15: a read never sees a store or a current locale in the middle of an
\* update.  While a load is in flight the store and the loading handle's
\* current locale are those the call began with; once it has returned they
\* are either that same pair or the complete new pair (every locale of the
\* closure with the document the call built, the other entries untouched or,
\* with clean_unused, gone, and the target as current locale); and the store
\* holds the whole closure of every handle's current locale.
C15_NoMidUpdate ==
    /\ \A h \in alive :
          pc[h] = "loading" =>
              (assets = pre[h].assets /\ current_locale[h] = pre[h].current)
    /\ ret.op = "load" =>
          LET c == Closure(fallbacks, ret.target)
          IN  \/ (assets = ret.pre_assets /\ current_locale[ret.h] = ret.pre_current)
              \/ /\ ret.val = "true"
                 /\ current_locale[ret.h] = ret.target
                 /\ c \subseteq DOMAIN assets
                 /\ \A l \in c : assets[l] = ret.built[l]
                 /\ \A l \in DOMAIN assets \ c :
                       /\ ~clean_unused
                       /\ l \in DOMAIN ret.pre_assets
                       /\ assets[l] = ret.pre_assets[l]
                 /\ ~clean_unused => DOMAIN ret.pre_assets \subseteq DOMAIN assets
    /\ \A h \in alive :
          current_locale[h] # None =>
              Closure(fallbacks, current_locale[h]) \subseteq DOMAIN assets

\* A load is in flight on one handle while another handle, with a locale
\* loaded and a filled store, can read.
C15_Witness ==
    \E h \in alive, h2 \in alive :
        /\ h # h2
        /\ pc[h] = "loading"
        /\ current_locale[h2] # None
        /\ assets # EmptyMap
        /\ new_locale[h] # current_locale[h2]

\* The step in which the load on handle h commits.
CommitStep(h) ==
    /\ pc[h] = "loading" /\ pc'[h] = "idle"
    /\ ret'.op = "load" /\ ret'.h = h /\ ret'.val = "true"

\* C16: the store starts empty; only the commit of a successful load changes
\* it, and every key it adds is in the fallback closure of that load's target
\* (with clean_unused no other key is left).  So every key of the store is in
\* the closure of the target of a successful load.
C16_StoreKeyProvenance ==
    /\ assets = EmptyMap
    /\ [][ /\ (\A h \in Handles : ~CommitStep(h)) => assets' = assets
           /\ \A h \in Handles :
                 CommitStep(h) =>
                     /\ DOMAIN assets' \subseteq
                            DOMAIN assets \cup Closure(fallbacks, ret'.target)
                     /\ clean_unused =>
                            DOMAIN assets' = Closure(fallbacks, ret'.target) ]_vars

\* A store with keys of two successful loads.
C16_Witness ==
    /\ ret.op = "load" /\ ret.val = "true" /\ ~clean_unused
    /\ DOMAIN ret.pre_assets # {}
    /\ DOMAIN assets # DOMAIN ret.pre_assets
    /\ DOMAIN assets # Closure(fallbacks, ret.target)

\* C20: a handle's current locale, when set, is a supported locale and the
\* store holds a document for every locale of its fallback closure; and no
\* step of a handle that stays alive takes its current locale away.
C20_LoadedStateInvariant ==
    /\ [](\A h \in alive :
            current_locale[h] # None =>
                /\ current_locale[h] \in supported_locales
                /\ Closure(fallbacks, current_locale[h]) \subseteq DOMAIN assets)
    /\ [][ \A h \in alive \cap alive' :
              current_locale[h] # None => current_locale'[h] # None ]_vars

\* After a first load set a current locale, a second load succeeded for
\* another target, or failed and left the current locale set.
C20_Witness ==
    /\ ret.op = "load" /\ ret.val \in {"true", "false"}
    /\ ret.pre_current # None
    /\ ret.target # ret.pre_current
    /\ current_locale[ret.h] \in supported_locales
    /\ Cardinality(Closure(fallbacks, current_locale[ret.h])) >= 2

\* The length of the piece of the template s that starts at i: the escape
\* `$$`, a `$` with the longest name after it, or one character.
PieceLen(s, i) ==
    IF s[i] = "$" /\ i < Len(s) /\ s[i + 1] = "$" THEN 2
    ELSE IF s[i] = "$" /\ i < Len(s) /\ s[i + 1] \in NameChars
    THEN LET stop == CHOOSE k \in (i + 2)..(Len(s) + 1) :
                         /\ k = Len(s) + 1 \/ s[k] \notin NameChars
                         /\ \A j \in (i + 1)..(k - 1) : s[j] \in NameChars
         IN  stop - i
    ELSE 1

\* The positions where the pieces start, scanning left to right.
RECURSIVE PieceStarts(_, _)
PieceStarts(s, i) ==
    IF i > Len(s) THEN {} ELSE {i} \cup PieceStarts(s, i + PieceLen(s, i))

\* What stands for the piece at i in the result.
PieceImage(s, i, vars_) ==
    LET piece == SubSeq(s, i, i + PieceLen(s, i) - 1)
    IN  IF piece = <<"$", "$">> THEN <<"$">>
        ELSE IF Len(piece) >= 2
        THEN IF Tail(piece) \in DOMAIN vars_ THEN vars_[Tail(piece)] ELSE Undefined
        ELSE piece

RECURSIVE ImagesOf(_, _, _)
ImagesOf(s, starts, vars_) ==
    IF starts = {} THEN <<>>
    ELSE LET i == CHOOSE x \in starts : \A y \in starts : x <= y
         IN  PieceImage(s, i, vars_) \o ImagesOf(s, starts \ {i}, vars_)

Interpolated(s, vars_) == ImagesOf(s, PieceStarts(s, 1), vars_)

\* "Hello $name, cost is $$5" and "Hello Ann, cost is $5"
HelloTemplate ==
    <<"H", "e", "l", "l", "o", " ", "$", "n", "a", "m", "e", ",", " ",
      "c", "o", "s", "t", " ", "i", "s", " ", "$", "$", "5">>
HelloResult ==
    <<"H", "e", "l", "l", "o", " ", "A", "n", "n", ",", " ",
      "c", "o", "s", "t", " ", "i", "s", " ", "$", "5">>

\* C17: apply_message gives the template with each match of `$$` or `$name`,
\* taken left to right, the name as long as it can be, replaced (`$$` by `$`,
\* `$name` by the variable's value or by "undefined"), the rest kept, and the
\* values put in are not scanned again.
C17_Interpolation ==
    ret.op = "apply_message" =>
        /\ ret.str = Interpolated(ret.id, ret.options[1].m)
        /\ apply_message(HelloTemplate, [k \in {<<"n", "a", "m", "e">>} |-> <<"A", "n", "n">>])
               = HelloResult
        /\ apply_message(<<"$", "m", "i", "s", "s", "i", "n", "g">>, NoVars) = Undefined

\* "$a-$" with a = "Z" and a- = "Y": the longer name is taken and the lone
\* `$` after it is kept.  "$a$a" with a = "$a": the values are kept as they
\* are.
C17_Witness ==
    /\ ret.op = "apply_message"
    /\ \/ /\ ret.id = <<"$", "a", "-", "$">>
          /\ <<"a", "-">> \in DOMAIN ret.options[1].m
          /\ ret.str = <<"Y", "$">>
       \/ /\ ret.id = <<"$", "a", "$", "a">>
          /\ ret.options[1].m = [k \in {<<"a">>} |-> <<"$", "a">>]
          /\ ret.str = <<"$", "a", "$", "a">>

\* The text of the identifier looked up: the base and, for each suffix
\* argument in order, an underscore and the argument's text.
RECURSIVE Composed(_, _)
Composed(base, options) ==
    IF Len(options) = 0 THEN base
    ELSE Composed(IF options[1].kind = "str" THEN base \o <<"_">> \o options[1].s
                  ELSE base,
                  Tail(options))

\* The pieces of a text between its dots.
Segments(text) ==
    LET B      == {0, Len(text) + 1} \cup {i \in 1..Len(text) : text[i] = "."}
        nth(k) == CHOOSE b \in B : Cardinality({c \in B : c < b}) = k - 1
    IN  [k \in 1..(Cardinality(B) - 1) |-> SubSeq(text, nth(k) + 1, nth(k + 1) - 1)]

\* C18: get_formatted looks up the base identifier followed by an underscore
\* and the text of each suffix argument, in argument order (variable maps add
\* nothing), split at its dots: it returns the string stored at that path of
\* the current locale's document, and the composed text when there is none.
C18_IdentifierComposition ==
    ret.op = "get" =>
        LET text == Composed(ret.id, ret.options)
            path == Segments(text)
            cur  == current_locale[ret.h]
        IN  ret.str = IF cur # None /\ Defines(assets, cur, path)
                      THEN assets[cur][path].s
                      ELSE text

\* get_formatted("a.x", [map, 1.5]) found the string at a / x_1 / 5, or
\* get_formatted("a.x", ["f"]) the string at a / x_f.
C18_Witness ==
    /\ ret.op = "get" /\ ret.id = <<"a", ".", "x">>
    /\ \/ /\ ret.options = <<MapArg(VarN), SuffixArg(<<"1", ".", "5">>)>>
          /\ ret.str = <<"4">>
       \/ /\ ret.options = <<SuffixArg(<<"f">>)>>
          /\ ret.str = <<"3">>

\* The parsed value of fragment i of the configured list.
FragmentValue(i) == CHOOSE v \in Contents("en", base_file_names[i]) : TRUE

\* The path a fragment name addresses.
NamePath(i) == Segments([k \in DOMAIN base_file_names[i] |->
                            IF base_file_names[i][k] = "/" THEN "." ELSE base_file_names[i][k]])

\* The document holds the value v at the path p, with all below it.
HoldsAt(doc, p, v) ==
    /\ \A q \in DOMAIN v : p \o q \in DOMAIN doc /\ doc[p \o q] = v[q]
    /\ \A q \in DOMAIN doc : IsPrefix(p, q) => SubSeq(q, Len(p) + 1, Len(q)) \in DOMAIN v

Overlap(p, q) == IsPrefix(p, q) \/ IsPrefix(q, p)

\* C19 as stated: when two fragments of the list both hold a string at a path
\* (x.y), the locale's document holds the later fragment's string at that
\* path.
C19_FragmentMergeOrder ==
    (ret.op = "load" /\ ret.val = "true") =>
        \A l \in DOMAIN ret.built :
            \A i \in DOMAIN base_file_names, j \in DOMAIN base_file_names :
                i < j =>
                    \A q \in DOMAIN FragmentValue(i) \cap DOMAIN FragmentValue(j) :
                        (FragmentValue(i)[q].t = "str" /\ FragmentValue(j)[q].t = "str") =>
                            /\ q \in DOMAIN ret.built[l]
                            /\ ret.built[l][q] = FragmentValue(j)[q]

\* C19 amended: each fragment's value is merged at the path its name
\* addresses, in the declared order.  A fragment with no later fragment at an
\* overlapping path stands whole at its path; so of two fragments at
\* overlapping paths the later one stands whole, and the earlier one keeps
\* only what lies outside the later one's path.
C19_MergeAtNamePath ==
    (ret.op = "load" /\ ret.val = "true") =>
        \A l \in DOMAIN ret.built :
            \A i \in DOMAIN base_file_names :
                /\ (\A j \in DOMAIN base_file_names :
                       j > i => ~Overlap(NamePath(i), NamePath(j))) =>
                       HoldsAt(ret.built[l], NamePath(i), FragmentValue(i))
                /\ \A j \in DOMAIN base_file_names :
                       (j > i /\ IsPrefix(NamePath(i), NamePath(j))) =>
                           \A q \in DOMAIN FragmentValue(i) :
                               ~Overlap(NamePath(i) \o q, NamePath(j)) =>
                                   /\ NamePath(i) \o q \in DOMAIN ret.built[l]
                                   /\ ret.built[l][NamePath(i) \o q] = FragmentValue(i)[q]

\* Fragment "a" then fragment "a/x": a.x.y is the later "2", a.x_f is kept.
C19_Witness ==
    /\ ret.op = "load" /\ ret.val = "true"
    /\ base_file_names = <<NameA, NameAX>>
    /\ ret.built["en"][<< <<"a">>, <<"x">>, <<"y">> >>] = Str(<<"2">>)
    /\ ret.built["en"][<< <<"a">>, <<"x", "_", "f">> >>] = Str(<<"3">>)

\* The segments of a fragment name between its separators.
NameSegments(name) ==
    Segments([k \in DOMAIN name |-> IF name[k] = "/" THEN "." ELSE name[k]])

\* C21: apply_deep leaves the fragment's whole value, and nothing else, at
\* the path of the name's segments; every proper prefix of that path is an
\* object afterwards, with its other members kept when it was an object
\* before and with no other member when it was missing or no object; and
\* every position off the path is as it was, none being added.
C21_SingleFragmentMerge ==
    ret.op = "apply_deep" =>
        LET P      == NameSegments(ret.id)
            Before == ret.doc_in
            After  == ret.doc_out
            Pre(i) == SubSeq(P, 1, i)
        IN  /\ HoldsAt(After, P, ret.value)
            /\ \A i \in 0..(Len(P) - 1) :
                  /\ Pre(i) \in DOMAIN After
                  /\ After[Pre(i)] = Obj
                  /\ (Pre(i) \notin DOMAIN Before \/ Before[Pre(i)] # Obj) =>
                        \A q \in DOMAIN After :
                            IsPrefix(Pre(i), q) => (q = Pre(i) \/ IsPrefix(Pre(i + 1), q))
            /\ \A q \in DOMAIN Before :
                  ~Overlap(q, P) => (q \in DOMAIN After /\ After[q] = Before[q])
            /\ \A q \in DOMAIN After :
                  ~Overlap(q, P) => q \in DOMAIN Before

\* "a/x" merged into {"a": <string>, "k": ..}: "a" became an object that
\* holds the value under "x", and "k" is as before; or merged into a document
\* whose "a" was an object with other members: these are kept.
C21_Witness ==
    /\ ret.op = "apply_deep" /\ ret.id = NameAX /\ ret.value = DocAX
    /\ << <<"k">> >> \in DOMAIN ret.doc_in
    /\ ret.doc_out[<< <<"k">> >>] = ret.doc_in[<< <<"k">> >>]
    /\ ret.doc_out[<< <<"a">>, <<"x">>, <<"y">> >>] = Str(<<"2">>)
    /\ \/ /\ << <<"a">> >> \in DOMAIN ret.doc_in
          /\ ret.doc_in[<< <<"a">> >>].t = "str"
          /\ ret.doc_out[<< <<"a">> >>] = Obj
       \/ /\ << <<"a">>, <<"x", "_", "f">> >> \in DOMAIN ret.doc_in
          /\ ret.doc_out[<< <<"a">>, <<"x", "_", "f">> >>] = Str(<<"3">>)
          /\ ret.doc_in[<< <<"a">>, <<"x">>, <<"y">> >>] = Str(<<"1">>)

====
